---------------------------- MODULE Spec2Model ----------------------------
(***************************************************************************)
(* Model of the trace-context core of go-sensor:                           *)
(*   - span_context.go : NewRootSpanContext, NewSpanContext, restoration   *)
(*     from a W3C trace context, Clone, WithBaggageItem;                   *)
(*   - propagation (part_001) : injectTraceContext / extractTraceContext   *)
(*     over text-map and HTTP-header carriers;                             *)
(*   - autoprofile/timer.go : Timer (delay goroutine, interval goroutine,  *)
(*     Stop).                                                              *)
(* Strings that the code parses, compares case-insensitively or slices are *)
(* sequences of one-character strings; enumerations (error names, program  *)
(* counters) are plain strings.                                            *)
(***************************************************************************)
EXTENDS Integers, Sequences, FiniteSets, TLC

(***************************************************************************)
(* Bounds of the model.                                                    *)
(***************************************************************************)
\* Hex digits of one identifier word (16 in the program: int64), scaled down.
IDDigits == 2
\* Longest chain of NewSpanContext / WithBaggageItem calls explored.
MaxDepth == 3
\* Job invocations counted by the timer model (the counter saturates).
MaxJobs == 2
\* Calls of Timer.Stop made by the owner of the timer.
MaxStops == 2
\* Operations applied to one carrier.
MaxOps == 2

(***************************************************************************)
(* Characters and strings.                                                 *)
(***************************************************************************)
LowerChars ==
  <<"a","b","c","d","e","f","g","h","i","j","k","l","m",
    "n","o","p","q","r","s","t","u","v","w","x","y","z">>

UpperChars ==
  <<"A","B","C","D","E","F","G","H","I","J","K","L","M",
    "N","O","P","Q","R","S","T","U","V","W","X","Y","Z">>

DigitChars == <<"0","1","2","3","4","5","6","7","8","9">>

HexChars ==
  <<"0","1","2","3","4","5","6","7","8","9","a","b","c","d","e","f">>

Range(s) == {s[i] : i \in DOMAIN s}

IndexIn(seq, ch) ==
  IF \E i \in DOMAIN seq : seq[i] = ch
    THEN CHOOSE i \in DOMAIN seq : seq[i] = ch /\ \A j \in 1..(i-1) : seq[j] # ch
    ELSE 0

\* unicode.ToLower of an ASCII character
ToLowerChar(ch) ==
  IF \E i \in DOMAIN UpperChars : UpperChars[i] = ch
    THEN LowerChars[CHOOSE i \in DOMAIN UpperChars : UpperChars[i] = ch]
    ELSE ch

\* unicode.ToUpper of an ASCII character
ToUpperChar(ch) ==
  IF \E i \in DOMAIN LowerChars : LowerChars[i] = ch
    THEN UpperChars[CHOOSE i \in DOMAIN LowerChars : LowerChars[i] = ch]
    ELSE ch

\* strings.ToLower
ToLower(s) == [i \in DOMAIN s |-> ToLowerChar(s[i])]

\* strings.HasPrefix
HasPrefix(s, p) == Len(s) >= Len(p) /\ SubSeq(s, 1, Len(p)) = p

\* strings.IndexByte, 1-based; 0 when the byte does not occur (Go: -1)
IndexByte(s, ch) == IndexIn(s, ch)

Min(a, b) == IF a < b THEN a ELSE b

RECURSIVE Pow16(_)
Pow16(n) == IF n = 0 THEN 1 ELSE 16 * Pow16(n - 1)

RECURSIVE PadLeft(_, _)
PadLeft(s, width) == IF Len(s) >= width THEN s ELSE PadLeft(<<"0">> \o s, width)

(***************************************************************************)
(* Identifier codec (FormatID, ParseID, FormatLongID, ParseLongID).        *)
(* Identifiers are signed words of IDDigits hex digits, two's complement.  *)
(***************************************************************************)
IDModulus == Pow16(IDDigits)

IDs == (0 - (IDModulus \div 2)) .. ((IDModulus \div 2) - 1)

ToUnsigned(n) == IF n < 0 THEN n + IDModulus ELSE n

ToSigned(u) == IF u >= IDModulus \div 2 THEN u - IDModulus ELSE u

RECURSIVE FormatUnsigned(_)
FormatUnsigned(u) ==
  IF u < 16 THEN <<HexChars[u + 1]>>
  ELSE FormatUnsigned(u \div 16) \o <<HexChars[(u % 16) + 1]>>

FormatID(n) == FormatUnsigned(ToUnsigned(n))

FormatLongID(hi, lo) ==
  IF hi = 0 THEN FormatID(lo)
  ELSE PadLeft(FormatID(hi), IDDigits) \o PadLeft(FormatID(lo), IDDigits)

IsHexChar(ch) == IndexIn(HexChars, ToLowerChar(ch)) > 0

HexVal(ch) == IndexIn(HexChars, ToLowerChar(ch)) - 1

TrimLeadingZeros(s) ==
  IF \E i \in DOMAIN s : s[i] # "0"
    THEN SubSeq(s, CHOOSE i \in DOMAIN s : s[i] # "0" /\ \A j \in 1..(i-1) : s[j] = "0", Len(s))
    ELSE <<>>

RECURSIVE HexValue(_)
HexValue(s) ==
  IF Len(s) = 0 THEN 0
  ELSE 16 * HexValue(SubSeq(s, 1, Len(s) - 1)) + HexVal(s[Len(s)])

\* [ok, val]: fails on the empty string, on a non-hex character and on a
\* value that does not fit one identifier word.
ParseID(s) ==
  IF Len(s) = 0 \/ (\E i \in DOMAIN s : ~IsHexChar(s[i]))
       \/ Len(TrimLeadingZeros(s)) > IDDigits
    THEN [ok |-> FALSE, val |-> 0]
    ELSE [ok |-> TRUE, val |-> ToSigned(HexValue(TrimLeadingZeros(s)))]

\* [ok, hi, lo]: up to IDDigits digits are the low word; of a longer string
\* the last IDDigits digits are the low word and the rest the high word.
ParseLongID(s) ==
  IF Len(s) > IDDigits
    THEN LET hi == ParseID(SubSeq(s, 1, Len(s) - IDDigits))
             lo == ParseID(SubSeq(s, Len(s) - IDDigits + 1, Len(s)))
         IN  IF hi.ok /\ lo.ok THEN [ok |-> TRUE, hi |-> hi.val, lo |-> lo.val]
             ELSE [ok |-> FALSE, hi |-> 0, lo |-> 0]
    ELSE LET lo == ParseID(s)
         IN  IF lo.ok THEN [ok |-> TRUE, hi |-> 0, lo |-> lo.val]
             ELSE [ok |-> FALSE, hi |-> 0, lo |-> 0]


(***************************************************************************)
(* W3C trace context (package w3ctrace).  RawParent is the traceparent     *)
(* header, "version-traceid-parentid-flags"; RawState is the tracestate    *)
(* header, "vendor=value,vendor=value".                                    *)
(***************************************************************************)
Version_Max == 0

VendorInstana == <<"i","n">>

\* strings.Split: the pieces of s between the occurrences of sep
RECURSIVE Split(_, _)
Split(s, sep) ==
  LET i == IndexByte(s, sep)
  IN  IF i = 0 THEN <<s>>
      ELSE <<SubSeq(s, 1, i - 1)>> \o Split(SubSeq(s, i + 1, Len(s)), sep)

\* strings.Join
RECURSIVE Join(_, _)
Join(pieces, sep) ==
  IF Len(pieces) = 0 THEN <<>>
  ELSE IF Len(pieces) = 1 THEN pieces[1]
  ELSE pieces[1] \o <<sep>> \o Join(Tail(pieces), sep)

ZeroW3CContext == [RawParent |-> <<>>, RawState |-> <<>>]

\* w3ctrace.Context.IsZero
IsZero(trCtx) == trCtx.RawParent = <<>>

ZeroParent ==
  [Version |-> 0, TraceID |-> <<>>, ParentID |-> <<>>, Flags |-> [Sampled |-> FALSE]]

FormatVersion(v) == PadLeft(FormatUnsigned(v), 2)

FormatFlags(flags) == IF flags.Sampled THEN <<"0","1">> ELSE <<"0","0">>

\* w3ctrace.Parent.String
ParentString(p) ==
  Join(<<FormatVersion(p.Version), p.TraceID, p.ParentID, FormatFlags(p.Flags)>>, "-")

\* w3ctrace.ParseParent: [ok, parent]
ParseParent(raw) ==
  LET f == Split(raw, "-")
  IN  IF /\ Len(f) = 4
         /\ f[1] = FormatVersion(Version_Max)
         /\ f[4] \in {<<"0","0">>, <<"0","1">>}
        THEN [ok |-> TRUE,
              parent |-> [Version |-> Version_Max, TraceID |-> f[2], ParentID |-> f[3],
                          Flags |-> [Sampled |-> f[4] = <<"0","1">>]]]
        ELSE [ok |-> FALSE, parent |-> ZeroParent]

\* w3ctrace.Context.Parent: the parsed traceparent, the zero Parent when the
\* header does not parse
W3CParent(trCtx) == ParseParent(trCtx.RawParent).parent

\* w3ctrace.New
W3CNew(p) == [RawParent |-> ParentString(p), RawState |-> <<>>]

\* One tracestate member "vendor=value" split at its first '='.
ParseStateMember(m) ==
  LET eq == IndexByte(m, "=")
  IN  IF eq = 0 THEN [ok |-> FALSE, Vendor |-> <<>>, Value |-> <<>>]
      ELSE [ok |-> TRUE, Vendor |-> SubSeq(m, 1, eq - 1),
            Value |-> SubSeq(m, eq + 1, Len(m))]

FormatStateMember(e) == e.Vendor \o <<"=">> \o e.Value

\* w3ctrace.ParseState: the members that parse, in order
ParseState(raw) ==
  LET members == IF raw = <<>> THEN <<>> ELSE Split(raw, ",")
      parsed  == [i \in DOMAIN members |-> ParseStateMember(members[i])]
      good    == SelectSeq(parsed, LAMBDA e : e.ok)
  IN  [i \in DOMAIN good |-> [Vendor |-> good[i].Vendor, Value |-> good[i].Value]]

\* w3ctrace.Context.State
W3CState(trCtx) == ParseState(trCtx.RawState)

\* w3ctrace.State.Fetch
StateFetch(state, vendor) ==
  IF \E i \in DOMAIN state : state[i].Vendor = vendor
    THEN [ok |-> TRUE,
          Value |-> state[CHOOSE i \in DOMAIN state :
                            /\ state[i].Vendor = vendor
                            /\ \A j \in 1..(i-1) : state[j].Vendor # vendor].Value]
    ELSE [ok |-> FALSE, Value |-> <<>>]

\* w3ctrace.State.Add: the vendor's entry is replaced and moved to the front,
\* the other entries keep their order
StateAdd(state, vendor, value) ==
  <<[Vendor |-> vendor, Value |-> value]>>
    \o SelectSeq(state, LAMBDA e : e.Vendor # vendor)

\* w3ctrace.State.String
StateString(state) ==
  Join([i \in DOMAIN state |-> FormatStateMember(state[i])], ",")

(***************************************************************************)
(* SpanContext.  Baggage is a reference to a map on the heap (NilMap: the  *)
(* nil map); the heap is a sequence of maps from key to value.             *)
(***************************************************************************)
NilMap == 0

NilForeignParent == [kind |-> "nil"]

ZeroCorrelation == [Type |-> <<>>, ID |-> <<>>]

ZeroSpanContext ==
  [TraceIDHi |-> 0, TraceID |-> 0, SpanID |-> 0, ParentID |-> 0,
   Links |-> <<>>, Sampled |-> FALSE, Suppressed |-> FALSE,
   Baggage |-> NilMap, W3CContext |-> ZeroW3CContext,
   ForeignTrace |-> FALSE, Correlation |-> ZeroCorrelation,
   ForeignParent |-> NilForeignParent]

EmptyMap == [k \in {} |-> <<>>]

MapSet(m, k, v) == [x \in DOMAIN m \cup {k} |-> IF x = k THEN v ELSE m[x]]

MapDelete(m, k) == [x \in DOMAIN m \ {k} |-> m[x]]

\* The entries seen through a baggage reference (none through the nil map).
BaggageOf(c, h) == IF c.Baggage = NilMap THEN EmptyMap ELSE h[c.Baggage]

\* newW3CTraceContext
newW3CTraceContext(c) ==
  W3CNew([Version |-> Version_Max,
          TraceID |-> FormatLongID(c.TraceIDHi, c.TraceID),
          ParentID |-> FormatID(c.SpanID),
          Flags |-> [Sampled |-> ~c.Suppressed]])

\* NewRootSpanContext, id the value randomID() returned
NewRootSpanContext(id) ==
  LET c == [ZeroSpanContext EXCEPT !.TraceID = id, !.SpanID = id]
  IN  [c EXCEPT !.W3CContext = newW3CTraceContext(c)]

\* parseW3CInstanaState
parseW3CInstanaState(vendorData) ==
  LET ind == IndexByte(vendorData, ";")
  IN  IF ind = 0
        THEN [ok |-> FALSE, ref |-> [TraceID |-> <<>>, SpanID |-> <<>>]]
        ELSE [ok |-> TRUE,
              ref |-> [TraceID |-> SubSeq(vendorData, 1, ind - 1),
                       SpanID |-> SubSeq(vendorData, ind + 1, Len(vendorData))]]

restoreFromW3CTraceState_Partial(trCtx) ==
  IF IsZero(trCtx) THEN ZeroSpanContext
  ELSE
    LET c     == [ZeroSpanContext EXCEPT !.W3CContext = trCtx]
        state == StateFetch(W3CState(trCtx), VendorInstana)
        anc   == parseW3CInstanaState(state.Value)
        trace == ParseLongID(anc.ref.TraceID)
        span  == ParseID(anc.ref.SpanID)
    IN  IF ~state.ok THEN c
        ELSE IF ~anc.ok THEN c
        ELSE IF ~trace.ok THEN c
        ELSE [c EXCEPT !.TraceIDHi = trace.hi, !.TraceID = trace.lo,
                       !.SpanID = span.val]

\* restoreFromW3CTraceState
restoreFromW3CTraceState(trCtx) ==
  IF IsZero(trCtx) THEN ZeroSpanContext
  ELSE
    LET c     == [ZeroSpanContext EXCEPT !.W3CContext = trCtx]
        state == StateFetch(W3CState(trCtx), VendorInstana)
        anc   == parseW3CInstanaState(state.Value)
        trace == ParseLongID(anc.ref.TraceID)
        span  == ParseID(anc.ref.SpanID)
    IN  IF ~state.ok THEN c
        ELSE IF ~anc.ok THEN c
        ELSE IF ~trace.ok THEN c
        ELSE IF ~span.ok THEN c
        ELSE [c EXCEPT !.TraceIDHi = trace.hi, !.TraceID = trace.lo,
                       !.SpanID = span.val]

restoreFromW3CTraceContext_KeepsSampled(trCtx, disabled) ==
  IF IsZero(trCtx) THEN ZeroSpanContext
  ELSE IF disabled THEN restoreFromW3CTraceState(trCtx)
  ELSE
    LET parent == W3CParent(trCtx)
        trace  == ParseLongID(parent.TraceID)
        span   == ParseID(parent.ParentID)
    IN  IF ~trace.ok THEN ZeroSpanContext
        ELSE IF ~span.ok THEN ZeroSpanContext
        ELSE [ZeroSpanContext EXCEPT
                !.TraceIDHi = trace.hi, !.TraceID = trace.lo,
                !.SpanID = span.val,
                !.Suppressed = parent.Flags.Sampled,
                !.W3CContext = trCtx]

\* restoreFromW3CTraceContext, disabled the value of
\* sensor.options.disableW3CTraceCorrelation
restoreFromW3CTraceContext(trCtx, disabled) ==
  IF IsZero(trCtx) THEN ZeroSpanContext
  ELSE IF disabled THEN restoreFromW3CTraceState(trCtx)
  ELSE
    LET parent == W3CParent(trCtx)
        trace  == ParseLongID(parent.TraceID)
        span   == ParseID(parent.ParentID)
    IN  IF ~trace.ok THEN ZeroSpanContext
        ELSE IF ~span.ok THEN ZeroSpanContext
        ELSE [ZeroSpanContext EXCEPT
                !.TraceIDHi = trace.hi, !.TraceID = trace.lo,
                !.SpanID = span.val,
                !.Suppressed = ~parent.Flags.Sampled,
                !.W3CContext = trCtx]

Clone_SharesBaggage(c, h) ==
  [c |-> [ZeroSpanContext EXCEPT
            !.TraceIDHi = c.TraceIDHi, !.TraceID = c.TraceID,
            !.SpanID = c.SpanID, !.ParentID = c.ParentID,
            !.Sampled = c.Sampled, !.Suppressed = c.Suppressed,
            !.W3CContext = c.W3CContext, !.Baggage = c.Baggage],
   heap |-> h]

\* SpanContext.Clone: [c, heap]; a non-nil baggage map is copied into a new
\* map, Links, ForeignTrace and Correlation are not among the copied fields
Clone(c, h) ==
  LET res == [ZeroSpanContext EXCEPT
                !.TraceIDHi = c.TraceIDHi, !.TraceID = c.TraceID,
                !.SpanID = c.SpanID, !.ParentID = c.ParentID,
                !.Sampled = c.Sampled, !.Suppressed = c.Suppressed,
                !.W3CContext = c.W3CContext]
  IN  IF c.Baggage # NilMap
        THEN [c |-> [res EXCEPT !.Baggage = Len(h) + 1],
              heap |-> Append(h, h[c.Baggage])]
        ELSE [c |-> res, heap |-> h]

\* SpanContext.WithBaggageItem: [c, heap]
WithBaggageItem(c, h, key, val) ==
  LET cl  == Clone(c, h)
      ref == IF cl.c.Baggage = NilMap THEN Len(cl.heap) + 1 ELSE cl.c.Baggage
      h1  == IF cl.c.Baggage = NilMap THEN Append(cl.heap, EmptyMap) ELSE cl.heap
  IN  [c |-> [cl.c EXCEPT !.Baggage = ref],
       heap |-> [h1 EXCEPT ![ref] = MapSet(@, key, val)]]

HasNoNativeIDs_IgnoresTraceIDHi(c) == c.TraceID = 0 /\ c.SpanID = 0

\* The test of lines 71 and 76: the context carries no native identifier.
HasNoNativeIDs(c) == c.TraceIDHi = 0 /\ c.TraceID = 0 /\ c.SpanID = 0

DeriveChild_KeepsParentID(cl, parent, id, foreignTrace) ==
  [cl EXCEPT !.SpanID = id, !.ParentID = parent.ParentID,
             !.ForeignTrace = foreignTrace]

\* Lines 88-89: the clone becomes the child of parent, id the value
\* randomID() returned.
DeriveChild(cl, parent, id, foreignTrace) ==
  [cl EXCEPT !.SpanID = id, !.ParentID = parent.SpanID,
             !.ForeignTrace = foreignTrace]

UpdateW3CParent_Stale(c) == c

\* Lines 98-100: the traceparent's parent id becomes the new span id.
UpdateW3CParent(c) ==
  LET w3cParent == [W3CParent(c.W3CContext) EXCEPT !.ParentID = FormatID(c.SpanID)]
  IN  [c EXCEPT !.W3CContext.RawParent = ParentString(w3cParent)]

AddAncestorLink_Always(c, foreignTrace) ==
  LET ancestor == StateFetch(W3CState(c.W3CContext), VendorInstana)
      parsed   == parseW3CInstanaState(ancestor.Value)
  IN  IF ancestor.ok /\ parsed.ok
        THEN [c EXCEPT !.Links = Append(@, parsed.ref)]
        ELSE c

\* Lines 103-110: the link to the ancestor named by the `in` tracestate entry.
AddAncestorLink(c, foreignTrace) ==
  LET ancestor == StateFetch(W3CState(c.W3CContext), VendorInstana)
      parsed   == parseW3CInstanaState(ancestor.Value)
  IN  IF foreignTrace /\ ancestor.ok /\ parsed.ok
        THEN [c EXCEPT !.Links = Append(@, parsed.ref)]
        ELSE c

\* Lines 80-82: the new root keeps the W3C context of the parent.
PreserveW3CContext(c, parent) ==
  IF ~IsZero(parent.W3CContext)
    THEN [c EXCEPT !.W3CContext = parent.W3CContext]
    ELSE c

\* Lines 92-110: the W3C context of the child.
ChildW3CContext(c, foreignTrace) ==
  IF IsZero(c.W3CContext)
    THEN [c EXCEPT !.W3CContext = newW3CTraceContext(c)]
    ELSE AddAncestorLink(UpdateW3CParent(c), foreignTrace)

\* Lines 87-112, cl the result of parent.Clone(): [c, heap]
ChildOfClone(cl, parent, id, foreignTrace) ==
  [c |-> ChildW3CContext(DeriveChild(cl.c, parent, id, foreignTrace), foreignTrace),
   heap |-> cl.heap]

\* Lines 76-112, parent the value of the variable parent at line 76: [c, heap]
NewSpanContextFrom(parent, h, id, foreignTrace) ==
  IF HasNoNativeIDs(parent)
    THEN [c |-> PreserveW3CContext(NewRootSpanContext(id), parent), heap |-> h]
    ELSE ChildOfClone(Clone(parent, h), parent, id, foreignTrace)

NewSpanContext_AlwaysForeign(parent0, h, id, disabled) ==
  IF HasNoNativeIDs(parent0)
    THEN NewSpanContextFrom(restoreFromW3CTraceContext(parent0.W3CContext, disabled),
                            h, id, TRUE)
    ELSE NewSpanContextFrom(parent0, h, id, FALSE)

\* NewSpanContext: [c, heap]; id the value the one randomID() call of the
\* path taken returned, disabled the correlation option.
NewSpanContext(parent0, h, id, disabled) ==
  IF HasNoNativeIDs(parent0)
    THEN NewSpanContextFrom(restoreFromW3CTraceContext(parent0.W3CContext, disabled),
                            h, id, ~disabled)
    ELSE NewSpanContextFrom(parent0, h, id, FALSE)

(***************************************************************************)
(* State.                                                                  *)
(***************************************************************************)
VARIABLES
  \* the heap of baggage maps
  heap,
  \* span contexts: sensor.options.disableW3CTraceCorrelation, the argument
  \* and the result of the last call, the call made, the value randomID()
  \* returned to it, where the result descends from, the length of the chain
  disableW3CTraceCorrelation, parent, result, op, lastID, lineage, depth,
  \* the key and value given to the last WithBaggageItem
  item,
  \* propagation: the carrier (its capabilities and its entries), its entries
  \* before the last call, the context given to injectTraceContext and its
  \* error, the context and error extractTraceContext returned, the calls made
  carrierKind, carrier, before, sc, injErr, extracted, extErr, ops,
  \* timer: the arguments of NewTimer, the fields of Timer, the channels of
  \* the two runtime timers, the position of each goroutine and of the
  \* caller of Stop
  delay, interval, delayTimer, delayTimerC, delayTimerDone,
  intervalTicker, intervalTickerC, intervalTickerDone, stopped,
  pcDelay, pcInterval, pcStop,
  \* timer, history: job invocations begun, ticks delivered, calls of Stop,
  \* what the timer had done when Stop was called and since it returned
  jobs, ticks, stopCalls, stopBeforeDelay, stopAfterTick, stopReturned,
  jobAfterStop, jobPanicked, stopPanicked

contextVars ==
  <<disableW3CTraceCorrelation, parent, result, op, lastID, lineage, depth, item>>

carrierVars ==
  <<carrierKind, carrier, before, sc, injErr, extracted, extErr, ops>>

timerVars ==
  <<delay, interval, delayTimer, delayTimerC, delayTimerDone,
    intervalTicker, intervalTickerC, intervalTickerDone, stopped,
    pcDelay, pcInterval, pcStop,
    jobs, ticks, stopCalls, stopBeforeDelay, stopAfterTick, stopReturned,
    jobAfterStop, jobPanicked, stopPanicked>>

vars == <<heap, contextVars, carrierVars, timerVars>>

(***************************************************************************)
(* Inputs.                                                                 *)
(***************************************************************************)
\* Values randomID() returns.
RandomIDs == {1, 26}

\* Baggage maps of the contexts callers pass in.
InitHeap ==
  << (<<"u">> :> <<"a">>),
     (<<"u">> :> <<"a">> @@ <<"U">> :> <<"b">>),
     (<<"k","-","I","d">> :> <<"v">>) >>

\* Trace ids of traceparent headers: zero, one word, two words, no hex,
\* three words (too long), empty.
TraceIDStrings ==
  { <<"0">>, <<"1","a">>, PadLeft(<<"1">>, IDDigits) \o PadLeft(<<"2","b">>, IDDigits),
    <<"z","z">>,
    <<"1">> \o PadLeft(<<>>, IDDigits) \o PadLeft(<<>>, IDDigits), <<>> }

\* Parent ids of traceparent headers.
ParentIDStrings == { <<"0">>, <<"2","B">>, <<"g">> }

\* tracestate headers: none, an `in` entry, an `in` entry behind another
\* vendor whose span id is no hex, an `in` entry without ';'.
RawStates ==
  { <<>>,
    <<"i","n","=","7",";","8">>,
    <<"v","x","=","1",",","i","n","=","7",";","z">>,
    <<"i","n","=","7">> }

W3CInputs ==
  { ZeroW3CContext, [RawParent |-> <<"b","a","d">>, RawState |-> <<>>] }
    \cup
  { [RawParent |-> Join(<<FormatVersion(Version_Max), t, p, f>>, "-"),
     RawState |-> st] :
      t \in TraceIDStrings, p \in ParentIDStrings,
      f \in {<<"0","0">>, <<"0","1">>}, st \in RawStates }

\* Native identifiers <<TraceIDHi, TraceID, SpanID, ParentID>> of the contexts
\* callers pass in.
NativeInputs == { <<0, 0, 0, 0>>, <<0, 26, 43, 0>>, <<5, 0, 0, 0>>, <<0, 0, 7, 3>> }

ParentInputs ==
  { [ZeroSpanContext EXCEPT
       !.TraceIDHi = n[1], !.TraceID = n[2], !.SpanID = n[3], !.ParentID = n[4],
       !.Baggage = b, !.W3CContext = w] :
      n \in NativeInputs, b \in {NilMap, 1}, w \in W3CInputs }

(***************************************************************************)
(* Initial states of the three components.                                 *)
(***************************************************************************)
\* No WithBaggageItem call was made.
NoItem == [key |-> <<>>, val |-> <<>>]

ContextIdle ==
  /\ disableW3CTraceCorrelation = FALSE
  /\ parent = ZeroSpanContext
  /\ result = ZeroSpanContext
  /\ op = "none"
  /\ lastID = 0
  /\ lineage = "none"
  /\ depth = 0
  /\ item = NoItem

ContextInit ==
  /\ disableW3CTraceCorrelation \in BOOLEAN
  /\ parent = ZeroSpanContext
  /\ result = ZeroSpanContext
  /\ op = "none"
  /\ lastID = 0
  /\ lineage = "none"
  /\ depth = 0
  /\ item = NoItem

(***************************************************************************)
(* Span contexts: the calls.                                               *)
(***************************************************************************)
CallNewRootSpanContext ==
  \E id \in RandomIDs :
    /\ result' = NewRootSpanContext(id)
    /\ parent' = ZeroSpanContext
    /\ op' = "NewRootSpanContext"
    /\ lastID' = id
    /\ lineage' = "root"
    /\ depth' = 0
    /\ heap' = InitHeap
    /\ UNCHANGED <<disableW3CTraceCorrelation, item, carrierVars, timerVars>>

\* NewSpanContext of a context the caller built or extracted.
CallNewSpanContextOfInput ==
  /\ depth = 0
  /\ \E p \in ParentInputs, id \in RandomIDs :
       \E res \in {NewSpanContext(p, InitHeap, id, disableW3CTraceCorrelation)} :
           /\ result' = res.c
           /\ heap' = res.heap
           /\ parent' = p
           /\ op' = "NewSpanContext"
           /\ lastID' = id
           /\ lineage' = "input"
           /\ depth' = 1
           /\ UNCHANGED <<disableW3CTraceCorrelation, item, carrierVars, timerVars>>

\* NewSpanContext of the context the last call returned.
CallNewSpanContextOfResult ==
  /\ op # "none"
  /\ depth < MaxDepth
  /\ \E id \in RandomIDs :
       \E res \in {NewSpanContext(result, heap, id, disableW3CTraceCorrelation)} :
           /\ result' = res.c
           /\ heap' = res.heap
           /\ parent' = result
           /\ op' = "NewSpanContext"
           /\ lastID' = id
           /\ lineage' = IF lineage \in {"root", "rootchain"} THEN "rootchain"
                         ELSE "inputchain"
           /\ depth' = depth + 1
           /\ UNCHANGED <<disableW3CTraceCorrelation, item, carrierVars, timerVars>>

(***************************************************************************)
(* Span contexts: baggage.  The contexts of the callers that hold baggage, *)
(* and the calls of Clone and WithBaggageItem on the receiver or on the    *)
(* result of the last call.                                                *)
(***************************************************************************)
BaggageInputs ==
  { [ZeroSpanContext EXCEPT
       !.TraceIDHi = n[1], !.TraceID = n[2], !.SpanID = n[3], !.ParentID = n[4],
       !.Baggage = b, !.W3CContext = w] :
      n \in { <<0, 0, 0, 0>>, <<0, 26, 43, 0>> },
      b \in {NilMap, 1, 2},
      w \in { ZeroW3CContext,
              [RawParent |-> Join(<<FormatVersion(Version_Max), <<"1","a">>,
                                    <<"2","B">>, <<"0","1">> >>, "-"),
               RawState |-> <<"i","n","=","7",";","8">>] } }

\* Keys and values given to WithBaggageItem.
ItemKeys == { <<"u">>, <<"n">> }

ItemValues == { <<"a">>, <<"c">> }

\* NewSpanContext of a context the caller built or extracted, with baggage.
CallNewSpanContextOfBaggageInput ==
  /\ depth = 0
  /\ \E p \in BaggageInputs, id \in RandomIDs :
       \E res \in {NewSpanContext(p, heap, id, disableW3CTraceCorrelation)} :
           /\ result' = res.c
           /\ heap' = res.heap
           /\ parent' = p
           /\ op' = "NewSpanContext"
           /\ lastID' = id
           /\ lineage' = "input"
           /\ depth' = 1
           /\ UNCHANGED <<disableW3CTraceCorrelation, item, carrierVars, timerVars>>

\* Clone of the context the last call returned.
CallClone ==
  /\ op # "none"
  /\ depth < MaxDepth
  /\ \E res \in {Clone(result, heap)} :
       /\ result' = res.c
       /\ heap' = res.heap
       /\ parent' = result
       /\ op' = "Clone"
       /\ depth' = depth + 1
       /\ UNCHANGED <<disableW3CTraceCorrelation, lastID, lineage, item,
                      carrierVars, timerVars>>

\* WithBaggageItem on the receiver or on the result of the last call.
CallWithBaggageItem ==
  /\ op # "none"
  /\ depth < MaxDepth
  /\ \E receiver \in {parent, result}, key \in ItemKeys, val \in ItemValues :
       \E res \in {WithBaggageItem(receiver, heap, key, val)} :
         /\ result' = res.c
         /\ heap' = res.heap
         /\ parent' = receiver
         /\ op' = "WithBaggageItem"
         /\ item' = [key |-> key, val |-> val]
         /\ depth' = depth + 1
         /\ UNCHANGED <<disableW3CTraceCorrelation, lastID, lineage,
                        carrierVars, timerVars>>

(***************************************************************************)
(* Timer (autoprofile/timer.go).  NewTimer has returned: the delay timer   *)
(* is armed and the delay goroutine waits in its select.  A duration is 0  *)
(* or positive (1).  The channel of a runtime timer holds at most one      *)
(* value; a channel made by the program is "nil", "open" or "closed".      *)
(***************************************************************************)
Durations == {0, 1}

TimerFields ==
  /\ delayTimer = "armed"
  /\ delayTimerC = 0
  /\ delayTimerDone = "open"
  /\ intervalTicker = "nil"
  /\ intervalTickerC = 0
  /\ intervalTickerDone = "nil"
  /\ stopped = FALSE
  /\ pcDelay = "select"
  /\ pcInterval = "none"
  /\ pcStop = "idle"
  /\ jobs = 0
  /\ ticks = 0
  /\ stopCalls = 0
  /\ stopBeforeDelay = FALSE
  /\ stopAfterTick = FALSE
  /\ stopReturned = FALSE
  /\ jobAfterStop = FALSE
  /\ jobPanicked = FALSE
  /\ stopPanicked = FALSE

TimerIdle == delay = 0 /\ interval = 0 /\ TimerFields

\* NewTimer(delay, interval, job)
NewTimer == delay \in Durations /\ interval \in Durations /\ TimerFields

timerHistory ==
  <<jobs, ticks, stopCalls, stopBeforeDelay, stopAfterTick, stopReturned,
    jobAfterStop, jobPanicked, stopPanicked>>

otherThanTimer == <<heap, contextVars, carrierVars>>

\* close(ch) of a nil or closed channel panics
CloseChannel(ch) == IF ch = "open" THEN "closed" ELSE ch

ClosePanics(ch) == ch # "open"

\* job() begins
JobBegins ==
  /\ jobs' = Min(jobs + 1, MaxJobs)
  /\ jobAfterStop' = (jobAfterStop \/ stopReturned)

\* The runtime delivers the delay timer's value.
DelayTimerFires ==
  /\ delayTimer = "armed"
  /\ delayTimer' = "expired"
  /\ delayTimerC' = 1
  /\ UNCHANGED <<delay, interval, delayTimerDone, intervalTicker, intervalTickerC,
                 intervalTickerDone, stopped, pcDelay, pcInterval, pcStop>>
  /\ UNCHANGED <<timerHistory, otherThanTimer>>

\* The runtime delivers a tick; a tick is dropped while one is pending.
TickerFires ==
  /\ intervalTicker = "running"
  /\ intervalTickerC = 0
  /\ intervalTickerC' = 1
  /\ ticks' = Min(ticks + 1, MaxJobs)
  /\ UNCHANGED <<delay, interval, delayTimer, delayTimerC, delayTimerDone,
                 intervalTicker, intervalTickerDone, stopped,
                 pcDelay, pcInterval, pcStop>>
  /\ UNCHANGED <<jobs, stopCalls, stopBeforeDelay, stopAfterTick, stopReturned,
                 jobAfterStop, jobPanicked, stopPanicked, otherThanTimer>>

\* Line 30: case <-t.delayTimer.C, then the test of line 31
DelayReceive ==
  /\ pcDelay = "select"
  /\ delayTimerC = 1
  /\ delayTimerC' = 0
  /\ pcDelay' = IF interval > 0 THEN "l32" ELSE "l48"
  /\ UNCHANGED <<delay, interval, delayTimer, delayTimerDone, intervalTicker,
                 intervalTickerC, intervalTickerDone, stopped, pcInterval, pcStop>>
  /\ UNCHANGED <<timerHistory, otherThanTimer>>

\* Line 51: case <-t.delayTimerDone
DelayDone ==
  /\ pcDelay = "select"
  /\ delayTimerDone = "closed"
  /\ pcDelay' = "done"
  /\ UNCHANGED <<delay, interval, delayTimer, delayTimerC, delayTimerDone,
                 intervalTicker, intervalTickerC, intervalTickerDone, stopped,
                 pcInterval, pcStop>>
  /\ UNCHANGED <<timerHistory, otherThanTimer>>

\* Line 32: t.intervalTickerDone = make(chan bool)
DelayMakeDone ==
  /\ pcDelay = "l32"
  /\ intervalTickerDone' = "open"
  /\ pcDelay' = "l33"
  /\ UNCHANGED <<delay, interval, delayTimer, delayTimerC, delayTimerDone,
                 intervalTicker, intervalTickerC, stopped, pcInterval, pcStop>>
  /\ UNCHANGED <<timerHistory, otherThanTimer>>

\* Line 33: t.intervalTicker = time.NewTicker(interval)
DelayNewTicker ==
  /\ pcDelay = "l33"
  /\ intervalTicker' = "running"
  /\ intervalTickerC' = 0
  /\ pcDelay' = "l34"
  /\ UNCHANGED <<delay, interval, delayTimer, delayTimerC, delayTimerDone,
                 intervalTickerDone, stopped, pcInterval, pcStop>>
  /\ UNCHANGED <<timerHistory, otherThanTimer>>

\* Line 34: go func() { ... }()
DelayGo ==
  /\ pcDelay = "l34"
  /\ pcInterval' = "select"
  /\ pcDelay' = "l48"
  /\ UNCHANGED <<delay, interval, delayTimer, delayTimerC, delayTimerDone,
                 intervalTicker, intervalTickerC, intervalTickerDone, stopped, pcStop>>
  /\ UNCHANGED <<timerHistory, otherThanTimer>>

\* Lines 48-49: if delay > 0 { job() }
DelayFirstRun ==
  /\ pcDelay = "l48"
  /\ IF delay > 0
       THEN pcDelay' = "job" /\ JobBegins
       ELSE pcDelay' = "done" /\ UNCHANGED <<jobs, jobAfterStop>>
  /\ UNCHANGED <<delay, interval, delayTimer, delayTimerC, delayTimerDone,
                 intervalTicker, intervalTickerC, intervalTickerDone, stopped,
                 pcInterval, pcStop>>
  /\ UNCHANGED <<ticks, stopCalls, stopBeforeDelay, stopAfterTick, stopReturned,
                 jobPanicked, stopPanicked, otherThanTimer>>

\* job() of line 49 returns; the goroutine ends
DelayJobReturns ==
  /\ pcDelay = "job"
  /\ pcDelay' = "done"
  /\ UNCHANGED <<delay, interval, delayTimer, delayTimerC, delayTimerDone,
                 intervalTicker, intervalTickerC, intervalTickerDone, stopped,
                 pcInterval, pcStop>>
  /\ UNCHANGED <<timerHistory, otherThanTimer>>

\* job() of line 49 panics; the deferred recoverAndLog of line 27 recovers
\* and the goroutine ends
DelayJobPanics ==
  /\ pcDelay = "job"
  /\ pcDelay' = "done"
  /\ jobPanicked' = TRUE
  /\ UNCHANGED <<delay, interval, delayTimer, delayTimerC, delayTimerDone,
                 intervalTicker, intervalTickerC, intervalTickerDone, stopped,
                 pcInterval, pcStop>>
  /\ UNCHANGED <<jobs, ticks, stopCalls, stopBeforeDelay, stopAfterTick,
                 stopReturned, jobAfterStop, stopPanicked, otherThanTimer>>

\* Lines 39-40: case <-t.intervalTicker.C: job()
IntervalReceive ==
  /\ pcInterval = "select"
  /\ intervalTickerC = 1
  /\ intervalTickerC' = 0
  /\ pcInterval' = "job"
  /\ JobBegins
  /\ UNCHANGED <<delay, interval, delayTimer, delayTimerC, delayTimerDone,
                 intervalTicker, intervalTickerDone, stopped, pcDelay, pcStop>>
  /\ UNCHANGED <<ticks, stopCalls, stopBeforeDelay, stopAfterTick, stopReturned,
                 jobPanicked, stopPanicked, otherThanTimer>>

\* Lines 41-42: case <-t.intervalTickerDone: return
IntervalDone ==
  /\ pcInterval = "select"
  /\ intervalTickerDone = "closed"
  /\ pcInterval' = "done"
  /\ UNCHANGED <<delay, interval, delayTimer, delayTimerC, delayTimerDone,
                 intervalTicker, intervalTickerC, intervalTickerDone, stopped,
                 pcDelay, pcStop>>
  /\ UNCHANGED <<timerHistory, otherThanTimer>>

\* job() of line 40 returns; the loop of line 37 selects again
IntervalJobReturns ==
  /\ pcInterval = "job"
  /\ pcInterval' = "select"
  /\ UNCHANGED <<delay, interval, delayTimer, delayTimerC, delayTimerDone,
                 intervalTicker, intervalTickerC, intervalTickerDone, stopped,
                 pcDelay, pcStop>>
  /\ UNCHANGED <<timerHistory, otherThanTimer>>

\* job() of line 40 panics: the panic leaves the loop of line 37, the
\* deferred recoverAndLog of line 35 recovers and the goroutine ends
IntervalJobPanics ==
  /\ pcInterval = "job"
  /\ pcInterval' = "done"
  /\ jobPanicked' = TRUE
  /\ UNCHANGED <<delay, interval, delayTimer, delayTimerC, delayTimerDone,
                 intervalTicker, intervalTickerC, intervalTickerDone, stopped,
                 pcDelay, pcStop>>
  /\ UNCHANGED <<jobs, ticks, stopCalls, stopBeforeDelay, stopAfterTick,
                 stopReturned, jobAfterStop, stopPanicked, otherThanTimer>>

StopCall_IgnoresStopped ==
  /\ pcStop = "idle"
  /\ stopCalls < MaxStops
  /\ stopCalls' = stopCalls + 1
  /\ stopBeforeDelay' = IF stopCalls = 0 THEN delayTimer = "armed" ELSE stopBeforeDelay
  /\ stopAfterTick' = IF stopCalls = 0 THEN ticks >= 1 ELSE stopAfterTick
  /\ pcStop' = "l67" /\ stopped' = TRUE /\ UNCHANGED stopReturned
  /\ UNCHANGED <<delay, interval, delayTimer, delayTimerC, delayTimerDone,
                 intervalTicker, intervalTickerC, intervalTickerDone,
                 pcDelay, pcInterval>>
  /\ UNCHANGED <<jobs, ticks, jobAfterStop, jobPanicked, stopPanicked, otherThanTimer>>

\* Stop is called; lines 61-65: return if stopped, else set the flag
StopCall ==
  /\ pcStop = "idle"
  /\ stopCalls < MaxStops
  /\ stopCalls' = stopCalls + 1
  /\ stopBeforeDelay' = IF stopCalls = 0 THEN delayTimer = "armed" ELSE stopBeforeDelay
  /\ stopAfterTick' = IF stopCalls = 0 THEN ticks >= 1 ELSE stopAfterTick
  /\ IF stopped
       THEN pcStop' = "idle" /\ stopReturned' = TRUE /\ UNCHANGED stopped
       ELSE pcStop' = "l67" /\ stopped' = TRUE /\ UNCHANGED stopReturned
  /\ UNCHANGED <<delay, interval, delayTimer, delayTimerC, delayTimerDone,
                 intervalTicker, intervalTickerC, intervalTickerDone,
                 pcDelay, pcInterval>>
  /\ UNCHANGED <<jobs, ticks, jobAfterStop, jobPanicked, stopPanicked, otherThanTimer>>

\* Line 67: t.delayTimer.Stop() keeps a timer that has not expired from
\* firing; it does not drain the channel
StopDelayTimer ==
  /\ pcStop = "l67"
  /\ delayTimer' = IF delayTimer = "armed" THEN "stopped" ELSE delayTimer
  /\ pcStop' = "l68"
  /\ UNCHANGED <<delay, interval, delayTimerC, delayTimerDone, intervalTicker,
                 intervalTickerC, intervalTickerDone, stopped, pcDelay, pcInterval>>
  /\ UNCHANGED <<timerHistory, otherThanTimer>>

\* Line 68: close(t.delayTimerDone)
StopCloseDelayDone ==
  /\ pcStop = "l68"
  /\ delayTimerDone' = CloseChannel(delayTimerDone)
  /\ stopPanicked' = (stopPanicked \/ ClosePanics(delayTimerDone))
  /\ pcStop' = IF ClosePanics(delayTimerDone) THEN "panicked" ELSE "l70"
  /\ UNCHANGED <<delay, interval, delayTimer, delayTimerC, intervalTicker,
                 intervalTickerC, intervalTickerDone, stopped, pcDelay, pcInterval>>
  /\ UNCHANGED <<jobs, ticks, stopCalls, stopBeforeDelay, stopAfterTick,
                 stopReturned, jobAfterStop, jobPanicked, otherThanTimer>>

\* Line 70: if t.intervalTicker != nil; without a ticker Stop returns
StopCheckTicker ==
  /\ pcStop = "l70"
  /\ IF intervalTicker # "nil"
       THEN pcStop' = "l71" /\ UNCHANGED stopReturned
       ELSE pcStop' = "idle" /\ stopReturned' = TRUE
  /\ UNCHANGED <<delay, interval, delayTimer, delayTimerC, delayTimerDone,
                 intervalTicker, intervalTickerC, intervalTickerDone, stopped,
                 pcDelay, pcInterval>>
  /\ UNCHANGED <<jobs, ticks, stopCalls, stopBeforeDelay, stopAfterTick,
                 jobAfterStop, jobPanicked, stopPanicked, otherThanTimer>>

\* Line 71: t.intervalTicker.Stop(): no further tick is delivered; a pending
\* tick stays in the channel
StopTicker ==
  /\ pcStop = "l71"
  /\ intervalTicker' = "stopped"
  /\ pcStop' = "l72"
  /\ UNCHANGED <<delay, interval, delayTimer, delayTimerC, delayTimerDone,
                 intervalTickerC, intervalTickerDone, stopped, pcDelay, pcInterval>>
  /\ UNCHANGED <<timerHistory, otherThanTimer>>

\* Line 72: close(t.intervalTickerDone), then Stop returns
StopCloseTickerDone ==
  /\ pcStop = "l72"
  /\ intervalTickerDone' = CloseChannel(intervalTickerDone)
  /\ stopPanicked' = (stopPanicked \/ ClosePanics(intervalTickerDone))
  /\ pcStop' = IF ClosePanics(intervalTickerDone) THEN "panicked" ELSE "idle"
  /\ stopReturned' = (stopReturned \/ ~ClosePanics(intervalTickerDone))
  /\ UNCHANGED <<delay, interval, delayTimer, delayTimerC, delayTimerDone,
                 intervalTicker, intervalTickerC, stopped, pcDelay, pcInterval>>
  /\ UNCHANGED <<jobs, ticks, stopCalls, stopBeforeDelay, stopAfterTick,
                 jobAfterStop, jobPanicked, otherThanTimer>>

(***************************************************************************)
(* Propagation (part_001): carriers, injectTraceContext,                   *)
(* extractTraceContext.  A carrier maps a key to the sequence of its       *)
(* values (one value in a text map, one or more in an HTTP header map).    *)
(***************************************************************************)
FieldT == <<"x","-","i","n","s","t","a","n","a","-","t">>

FieldS == <<"x","-","i","n","s","t","a","n","a","-","s">>

FieldL == <<"x","-","i","n","s","t","a","n","a","-","l">>

FieldB == <<"x","-","i","n","s","t","a","n","a","-","b","-">>

TraceParentHeader == <<"t","r","a","c","e","p","a","r","e","n","t">>

TraceStateHeader == <<"t","r","a","c","e","s","t","a","t","e">>

\* What a carrier is: ot.TextMapCarrier, ot.HTTPHeadersCarrier, a value that
\* is only a TextMapReader, only a TextMapWriter, or neither.
CarrierKinds == {"TextMapCarrier", "HTTPHeadersCarrier", "Reader", "Writer", "Opaque"}

IsTextMapReader(kind) == kind \in {"TextMapCarrier", "HTTPHeadersCarrier", "Reader"}

IsTextMapWriter_Always(kind) == TRUE

IsTextMapWriter(kind) == kind \in {"TextMapCarrier", "HTTPHeadersCarrier", "Writer"}

IsHTTPHeadersCarrier(kind) == kind = "HTTPHeadersCarrier"

TokenChars ==
  Range(LowerChars) \cup Range(UpperChars) \cup Range(DigitChars)
    \cup {"!", "#", "$", "%", "&", "*", "+", "-", ".", "^", "_", "|", "~"}

\* textproto.CanonicalMIMEHeaderKey: the first letter and each letter after
\* a '-' in upper case, the others in lower case; a key holding a byte that
\* no header name may hold is left as it is
CanonicalMIMEHeaderKey(k) ==
  IF \E i \in DOMAIN k : k[i] \notin TokenChars THEN k
  ELSE [i \in DOMAIN k |->
          IF i = 1 \/ k[i - 1] = "-" THEN ToUpperChar(k[i]) ELSE ToLowerChar(k[i])]

\* carrier.Set(key, val): a text map stores under the key as given,
\* http.Header.Set under the canonical key
CarrierSet(kind, m, key, val) ==
  IF IsHTTPHeadersCarrier(kind)
    THEN MapSet(m, CanonicalMIMEHeaderKey(key), <<val>>)
    ELSE MapSet(m, key, <<val>>)

RECURSIVE Perms(_)
Perms(S) ==
  IF S = {} THEN {<<>>}
  ELSE UNION {{<<x>> \o q : q \in Perms(S \ {x})} : x \in S}

\* The keys of a carrier that spell the field (or, for FieldB, start with it).
KeysOf(m, field) ==
  {k \in DOMAIN m : IF field = FieldB THEN HasPrefix(ToLower(k), FieldB)
                    ELSE ToLower(k) = field}

\* The orders in which ForeachKey may visit the keys of a carrier (Go ranges
\* over a map in any order).  The handlers of lines 35-49 and 125-155 keep,
\* per field, what the last key of that field gave them, and do nothing for
\* a key of no field: the keys of each field are taken in every order, the
\* fields one after the other.
KeyOrders(m) ==
  LET others == DOMAIN m \ (KeysOf(m, FieldT) \cup KeysOf(m, FieldS)
                              \cup KeysOf(m, FieldL) \cup KeysOf(m, FieldB))
      rest   == CHOOSE q \in Perms(others) : TRUE
  IN  { rest \o t \o s2 \o l \o b :
          t \in Perms(KeysOf(m, FieldT)), s2 \in Perms(KeysOf(m, FieldS)),
          l \in Perms(KeysOf(m, FieldL)), b \in Perms(KeysOf(m, FieldB)) }

\* carrier.ForeachKey: the (key, value) pairs in the order the handler sees
\* them, the keys in the order keyOrder
RECURSIVE Entries(_, _)
Entries(m, keyOrder) ==
  IF Len(keyOrder) = 0 THEN <<>>
  ELSE [i \in DOMAIN m[keyOrder[1]] |-> [k |-> keyOrder[1], v |-> m[keyOrder[1]][i]]]
         \o Entries(m, Tail(keyOrder))

\* Lines 30-49: the spelling the carrier already uses for each field
RECURSIVE ExistingFields(_, _)
ExistingFields(entries, acc) ==
  IF Len(entries) = 0 THEN acc
  ELSE
    LET k     == entries[1].k
        lower == ToLower(k)
        next  == IF lower = FieldT THEN [acc EXCEPT !.T = k]
                 ELSE IF lower = FieldS THEN [acc EXCEPT !.S = k]
                 ELSE IF lower = FieldL THEN [acc EXCEPT !.L = k]
                 ELSE IF HasPrefix(lower, FieldB)
                        THEN [acc EXCEPT !.B = SubSeq(k, 1, Len(FieldB))]
                 ELSE acc
    IN  ExistingFields(Tail(entries), next)

formatLevel_AlwaysOne(c0) == <<"1">>

\* formatLevel
formatLevel(c0) == IF c0.Suppressed THEN <<"0">> ELSE <<"1">>

\* parseLevel
parseLevel(v) == v = <<"0">>

\* w3ctrace.Inject
W3CInject(trCtx, hdr) ==
  MapSet(MapSet(hdr, CanonicalMIMEHeaderKey(TraceParentHeader), <<trCtx.RawParent>>),
         CanonicalMIMEHeaderKey(TraceStateHeader), <<trCtx.RawState>>)

addW3CTraceContext_KeepsParentID(hdr, c0) ==
  LET traceID == FormatID(c0.TraceID)
      spanID  == FormatID(c0.SpanID)
      trCtx   == IF c0.ForeignParent.kind = "w3c" THEN c0.ForeignParent.ctx
                 ELSE W3CNew([Version |-> Version_Max, TraceID |-> traceID,
                              ParentID |-> spanID,
                              Flags |-> [Sampled |-> ~c0.Suppressed]])
      state   == StateAdd(W3CState(trCtx), VendorInstana, traceID \o <<";">> \o spanID)
  IN  W3CInject([RawParent |-> trCtx.RawParent, RawState |-> StateString(state)], hdr)

\* addW3CTraceContext
addW3CTraceContext(hdr, c0) ==
  LET traceID == FormatID(c0.TraceID)
      spanID  == FormatID(c0.SpanID)
      trCtx   == IF c0.ForeignParent.kind = "w3c" THEN c0.ForeignParent.ctx
                 ELSE W3CNew([Version |-> Version_Max, TraceID |-> traceID,
                              ParentID |-> spanID,
                              Flags |-> [Sampled |-> ~c0.Suppressed]])
      p       == [W3CParent(trCtx) EXCEPT !.ParentID = spanID]
      state   == StateAdd(W3CState(trCtx), VendorInstana, traceID \o <<";">> \o spanID)
  IN  W3CInject([RawParent |-> ParentString(p), RawState |-> StateString(state)], hdr)

\* Lines 65-74: the discovered keys and every baggage key leave the header map
DeleteInstanaHeaders(hdr, exst) ==
  LET gone == {exst.T, exst.S, exst.L}
                \cup {k \in DOMAIN hdr : HasPrefix(ToLower(k), FieldB)}
  IN  [k \in DOMAIN hdr \ gone |-> hdr[k]]

\* Lines 83-85: one carrier.Set per baggage entry, in the order bagOrder
RECURSIVE SetBaggage(_, _, _, _, _)
SetBaggage(kind, m, prefix, bag, bagOrder) ==
  IF Len(bagOrder) = 0 THEN m
  ELSE SetBaggage(kind,
                  CarrierSet(kind, m, prefix \o bagOrder[1], bag[bagOrder[1]]),
                  prefix, bag, Tail(bagOrder))

\* injectTraceContext: [err, carrier]; keyOrder the order ForeachKey visits
\* the carrier's keys, bagOrder the order the range of line 83 visits the
\* baggage keys
injectTraceContext(c0, bag, kind, m, keyOrder, bagOrder) ==
  IF ~IsTextMapReader(kind) THEN [err |-> "ErrInvalidCarrier", carrier |-> m]
  ELSE
    LET exst == ExistingFields(Entries(m, keyOrder),
                               [T |-> FieldT, S |-> FieldS, L |-> FieldL, B |-> FieldB])
    IN  IF ~IsTextMapWriter(kind) THEN [err |-> "ErrInvalidCarrier", carrier |-> m]
        ELSE
          LET m1 == IF IsHTTPHeadersCarrier(kind)
                      THEN addW3CTraceContext(DeleteInstanaHeaders(m, exst), c0)
                      ELSE m
              m2 == CarrierSet(kind, m1, exst.T, FormatID(c0.TraceID))
              m3 == CarrierSet(kind, m2, exst.S, FormatID(c0.SpanID))
              m4 == CarrierSet(kind, m3, exst.L, formatLevel(c0))
          IN  [err |-> "nil", carrier |-> SetBaggage(kind, m4, exst.B, bag, bagOrder)]

\* w3ctrace.Extract: [ok, ctx]
W3CExtract(hdr) ==
  LET Header(name) ==
        IF \E k \in DOMAIN hdr : ToLower(k) = name /\ Len(hdr[k]) > 0
          THEN hdr[CHOOSE k \in DOMAIN hdr : ToLower(k) = name /\ Len(hdr[k]) > 0][1]
          ELSE <<>>
      trCtx == [RawParent |-> Header(TraceParentHeader),
                RawState |-> Header(TraceStateHeader)]
  IN  [ok |-> ParseParent(trCtx.RawParent).ok, ctx |-> trCtx]

\* The handler of lines 125-155 over the pairs in order: the fields found so
\* far, the baggage, the count and the error that ended the iteration
RECURSIVE ExtractFields(_, _)
ExtractFields(entries, acc) ==
  IF Len(entries) = 0 \/ acc.err # "nil" THEN acc
  ELSE
    LET k     == entries[1].k
        v     == entries[1].v
        lower == ToLower(k)
        id    == ParseID(v)
        next  ==
          IF lower = FieldT
            THEN IF id.ok
                   THEN [acc EXCEPT !.fieldCount = @ + 1, !.TraceID = id.val]
                   ELSE [acc EXCEPT !.fieldCount = @ + 1,
                                    !.err = "ErrSpanContextCorrupted"]
          ELSE IF lower = FieldS
            THEN IF id.ok
                   THEN [acc EXCEPT !.fieldCount = @ + 1, !.SpanID = id.val]
                   ELSE [acc EXCEPT !.fieldCount = @ + 1,
                                    !.err = "ErrSpanContextCorrupted"]
          ELSE IF lower = FieldL
            THEN [acc EXCEPT !.Suppressed = parseLevel(v)]
          ELSE IF HasPrefix(lower, FieldB)
            THEN [acc EXCEPT !.bag = MapSet(@, SubSeq(k, Len(FieldB) + 1, Len(k)), v)]
          ELSE acc
    IN  ExtractFields(Tail(entries), next)

\* extractTraceContext: [c, err, heap]; keyOrder the order ForeachKey visits
\* the carrier's keys
extractTraceContext(kind, m, keyOrder, h) ==
  LET spanContext == [ZeroSpanContext EXCEPT !.Baggage = Len(h) + 1]
  IN  IF ~IsTextMapReader(kind)
        THEN [c |-> spanContext, err |-> "ErrInvalidCarrier",
              heap |-> Append(h, EmptyMap)]
        ELSE
          LET acc == ExtractFields(Entries(m, keyOrder),
                       [TraceID |-> 0, SpanID |-> 0, Suppressed |-> FALSE,
                        bag |-> EmptyMap, fieldCount |-> 0, err |-> "nil"])
              sc1 == [spanContext EXCEPT !.TraceID = acc.TraceID,
                                         !.SpanID = acc.SpanID,
                                         !.Suppressed = acc.Suppressed]
              w3c == W3CExtract(m)
          IN  [c |-> IF /\ acc.err = "nil"
                        /\ acc.fieldCount >= 2
                        /\ IsHTTPHeadersCarrier(kind)
                        /\ w3c.ok
                       THEN [sc1 EXCEPT !.ForeignParent = [kind |-> "w3c", ctx |-> w3c.ctx]]
                       ELSE sc1,
               err |-> IF acc.err # "nil" THEN acc.err
                       ELSE IF acc.fieldCount = 0 THEN "ErrSpanContextNotFound"
                       ELSE IF acc.fieldCount < 2 THEN "ErrSpanContextCorrupted"
                       ELSE "nil",
               heap |-> Append(h, acc.bag)]

\* Entries of the carriers callers pass in: none; the four fields in lower
\* case; the trace field twice, in two spellings; trace, span and a baggage
\* key in other spellings; the span field alone; a trace id that is no hex;
\* a key of another protocol.
InitialEntries ==
  { EmptyMap,
    (FieldT :> << <<"1","a">> >>) @@ (FieldS :> << <<"2","b">> >>)
      @@ (FieldL :> << <<"0">> >>) @@ ((FieldB \o <<"u">>) :> << <<"a">> >>),
    (FieldT :> << <<"1","a">> >>)
      @@ (<<"X","-","I","n","s","t","a","n","a","-","T">> :> << <<"1","a">> >>),
    (<<"X","-","I","N","S","T","A","N","A","-","T">> :> << <<"5">> >>)
      @@ (<<"X","-","I","n","s","t","a","n","a","-","S">> :> << <<"6">> >>)
      @@ (<<"X","-","I","n","s","t","a","n","a","-","B","-","K">> :> << <<"v">> >>),
    (FieldS :> << <<"2","b">> >>),
    (FieldT :> << <<"z","z">> >>) @@ (FieldS :> << <<"1">> >>),
    (<<"o","t">> :> << <<"1">> >>) }

\* A header map may hold several values under one key.
InitialHeaders ==
  InitialEntries
    \cup { (<<"X","-","I","n","s","t","a","n","a","-","T">> :> << <<"1","a">>, <<"1","b">> >>) }

\* Contexts given to injectTraceContext.
InjectInputs ==
  { [ZeroSpanContext EXCEPT !.TraceID = 26, !.SpanID = 99],
    [ZeroSpanContext EXCEPT !.TraceID = 0 - 1, !.SpanID = 5, !.Suppressed = TRUE,
                            !.Baggage = 1],
    [ZeroSpanContext EXCEPT !.TraceID = 26, !.SpanID = 43, !.Baggage = 2],
    [ZeroSpanContext EXCEPT !.TraceID = 7, !.SpanID = 8, !.Suppressed = TRUE,
                            !.Baggage = 3],
    [ZeroSpanContext EXCEPT !.TraceID = 26, !.SpanID = 99,
       !.ForeignParent =
         [kind |-> "w3c",
          ctx |-> [RawParent |-> <<"0","0","-","1","a","-","2","b","-","0","1">>,
                   RawState |-> <<"v","x","=","1",",","i","n","=","7",";","8">>]]],
    [ZeroSpanContext EXCEPT !.TraceID = 7, !.SpanID = 8, !.Suppressed = TRUE,
       !.ForeignParent =
         [kind |-> "w3c",
          ctx |-> [RawParent |-> <<"0","0","-","5","-","6","-","0","0">>,
                   RawState |-> <<"w","y","=","2",",","i","n","=","5",";","6",",",
                                  "v","x","=","1">>]]] }

CarrierFields ==
  /\ before = EmptyMap
  /\ sc = ZeroSpanContext
  /\ injErr = "nil"
  /\ extracted = ZeroSpanContext
  /\ extErr = "nil"
  /\ ops = <<>>

CarrierIdle == carrierKind = "Opaque" /\ carrier = EmptyMap /\ CarrierFields

CarrierInit ==
  /\ carrierKind \in CarrierKinds
  /\ carrier \in (IF IsHTTPHeadersCarrier(carrierKind) THEN InitialHeaders
                  ELSE InitialEntries)
  /\ CarrierFields

CallInjectTraceContext ==
  /\ Len(ops) < MaxOps
  /\ \E c0 \in InjectInputs :
       \E keyOrder \in KeyOrders(carrier),
          bagOrder \in Perms(DOMAIN BaggageOf(c0, heap)) :
         LET res == injectTraceContext(c0, BaggageOf(c0, heap), carrierKind, carrier,
                                       keyOrder, bagOrder)
         IN  /\ carrier' = res.carrier
             /\ injErr' = res.err
             /\ before' = carrier
             /\ sc' = c0
             /\ ops' = Append(ops, "inject")
             /\ UNCHANGED <<carrierKind, extracted, extErr, heap, contextVars, timerVars>>

CallExtractTraceContext ==
  /\ Len(ops) < MaxOps
  /\ \E keyOrder \in KeyOrders(carrier) :
       LET res == extractTraceContext(carrierKind, carrier, keyOrder, heap)
       IN  /\ extracted' = res.c
           /\ extErr' = res.err
           /\ heap' = res.heap
           /\ ops' = Append(ops, "extract")
           /\ UNCHANGED <<carrierKind, carrier, before, sc, injErr, contextVars, timerVars>>

(***************************************************************************)
(* Specifications.                                                         *)
(***************************************************************************)
ContextSpecInit == heap = InitHeap /\ ContextInit /\ CarrierIdle /\ TimerIdle

ContextNext ==
  \/ CallNewRootSpanContext
  \/ CallNewSpanContextOfInput
  \/ CallNewSpanContextOfResult

ContextSpec == ContextSpecInit /\ [][ContextNext]_vars

BaggageSpecInit == ContextSpecInit

BaggageNext ==
  \/ CallNewSpanContextOfBaggageInput
  \/ CallNewSpanContextOfResult
  \/ CallClone
  \/ CallWithBaggageItem

BaggageSpec == BaggageSpecInit /\ [][BaggageNext]_vars

CarrierSpecInit == heap = InitHeap /\ ContextIdle /\ CarrierInit /\ TimerIdle

CarrierNext ==
  \/ CallInjectTraceContext
  \/ CallExtractTraceContext

CarrierSpec == CarrierSpecInit /\ [][CarrierNext]_vars

TimerSpecInit == heap = InitHeap /\ ContextIdle /\ CarrierIdle /\ NewTimer

TimerNext ==
  \/ DelayTimerFires
  \/ TickerFires
  \/ DelayReceive
  \/ DelayDone
  \/ DelayMakeDone
  \/ DelayNewTicker
  \/ DelayGo
  \/ DelayFirstRun
  \/ DelayJobReturns
  \/ DelayJobPanics
  \/ IntervalReceive
  \/ IntervalDone
  \/ IntervalJobReturns
  \/ IntervalJobPanics
  \/ StopCall
  \/ StopDelayTimer
  \/ StopCloseDelayDone
  \/ StopCheckTicker
  \/ StopTicker
  \/ StopCloseTickerDone

TimerSpec == TimerSpecInit /\ [][TimerNext]_vars

(***************************************************************************)
(* Properties.                                                             *)
(***************************************************************************)
LastOp(name) == ops # <<>> /\ ops[Len(ops)] = name

IsHexString(str) == Len(str) > 0 /\ \A i \in DOMAIN str : IsHexChar(str[i])

\* C1: extractTraceContext fails with ErrSpanContextNotFound when no key of
\* the carrier spells the trace field or the span field (in any letter
\* case), fails with ErrSpanContextCorrupted when exactly one of the two
\* fields is present, and succeeds only when both fields are present.
C1_ErrorFollowsFieldsPresent ==
  (LastOp("extract") /\ carrierKind \in {"TextMapCarrier", "HTTPHeadersCarrier", "Reader"})
    => LET hasT == \E k \in DOMAIN carrier : ToLower(k) = FieldT
           hasS == \E k \in DOMAIN carrier : ToLower(k) = FieldS
       IN  /\ (~hasT /\ ~hasS) => extErr = "ErrSpanContextNotFound"
           /\ (hasT # hasS) => extErr = "ErrSpanContextCorrupted"
           /\ extErr = "nil" => (hasT /\ hasS)

\* injectTraceContext into an empty text-map or HTTP-header carrier was
\* followed by extractTraceContext of that carrier.
RoundTrip ==
  /\ ops = <<"inject", "extract">>
  /\ before = EmptyMap
  /\ carrierKind \in {"TextMapCarrier", "HTTPHeadersCarrier"}

\* The baggage key a header map returns for the baggage key k: the part
\* after the baggage prefix of the canonical header name.
HeaderBaggageKey(k) ==
  SubSeq(CanonicalMIMEHeaderKey(FieldB \o k), Len(FieldB) + 1, Len(FieldB) + Len(k))

\* C2 as claimed: for both carrier types the round trip returns TraceID,
\* SpanID, Suppressed and exactly the baggage entries of the injected
\* context, keys in their original letter case.
C2_RoundTripExact ==
  RoundTrip =>
    /\ extErr = "nil"
    /\ extracted.TraceID = sc.TraceID
    /\ extracted.SpanID = sc.SpanID
    /\ extracted.Suppressed = sc.Suppressed
    /\ BaggageOf(extracted, heap) = BaggageOf(sc, heap)

\* C2 (amended): the round trip succeeds and returns TraceID, SpanID and
\* Suppressed of the injected context; through a text-map carrier the
\* baggage has exactly the injected entries; through an HTTP-header carrier
\* every baggage key comes back as the canonical header form of an injected
\* key, with the value of an injected key of that form, and every injected
\* key comes back in that form.
C2_RoundTrip ==
  RoundTrip =>
    LET bag == BaggageOf(sc, heap)
        got == BaggageOf(extracted, heap)
    IN  /\ extErr = "nil"
        /\ extracted.TraceID = sc.TraceID
        /\ extracted.SpanID = sc.SpanID
        /\ extracted.Suppressed = sc.Suppressed
        /\ carrierKind = "TextMapCarrier" => got = bag
        /\ carrierKind = "HTTPHeadersCarrier" =>
             /\ DOMAIN got = {HeaderBaggageKey(k) : k \in DOMAIN bag}
             /\ \A g \in DOMAIN got :
                  \E k \in DOMAIN bag : HeaderBaggageKey(k) = g /\ got[g] = bag[k]

C2_Witness ==
  /\ RoundTrip
  /\ carrierKind = "HTTPHeadersCarrier"
  /\ sc.Suppressed
  /\ extErr = "nil"
  /\ DOMAIN BaggageOf(sc, heap) # {}
  /\ BaggageOf(extracted, heap) # BaggageOf(sc, heap)

\* C3: a context returned by NewRootSpanContext has ParentID = 0 and
\* SpanID = TraceID; along a chain of NewSpanContext calls that starts at
\* such a root every context has the SpanID of the context it was derived
\* from as its ParentID, that context's TraceID and TraceIDHi, and the newly
\* generated identifier as its SpanID.
C3_ChildOfRoot ==
  /\ op = "NewRootSpanContext" =>
       /\ result.ParentID = 0
       /\ result.SpanID = result.TraceID
       /\ result.SpanID = lastID
  /\ (op = "NewSpanContext" /\ lineage = "rootchain") =>
       /\ result.ParentID = parent.SpanID
       /\ result.TraceID = parent.TraceID
       /\ result.TraceIDHi = parent.TraceIDHi
       /\ result.SpanID = lastID

C3_Witness ==
  /\ op = "NewSpanContext"
  /\ lineage = "rootchain"
  /\ depth = 2
  /\ parent.ParentID # 0
  /\ result.ParentID = parent.SpanID
  /\ result.SpanID # parent.SpanID

\* The parent of the last NewSpanContext call has no native identifier and a
\* non-zero W3C context whose trace id and parent id are hex strings, and
\* W3C correlation is enabled.
ForeignOnlyParent ==
  /\ op = "NewSpanContext"
  /\ parent.TraceIDHi = 0 /\ parent.TraceID = 0 /\ parent.SpanID = 0
  /\ ~IsZero(parent.W3CContext)
  /\ ~disableW3CTraceCorrelation
  /\ IsHexString(W3CParent(parent.W3CContext).TraceID)
  /\ IsHexString(W3CParent(parent.W3CContext).ParentID)

RestoredFromTraceParent ==
  LET fp == W3CParent(parent.W3CContext)
      t  == ParseLongID(fp.TraceID)
      p  == ParseID(fp.ParentID)
  IN  /\ t.ok /\ p.ok
      /\ result.TraceIDHi = t.hi
      /\ result.TraceID = t.lo
      /\ result.ParentID = p.val
      /\ result.Suppressed = ~fp.Flags.Sampled
      /\ result.ForeignTrace

\* C4 as claimed: for every such parent NewSpanContext returns the trace id
\* ParseLongID gives for the foreign trace id, the ParentID ParseID gives for
\* the foreign parent id, Suppressed = not sampled and ForeignTrace = true.
C4_EveryHexParentRestored == ForeignOnlyParent => RestoredFromTraceParent

\* C4 (amended): the same, for the parents whose foreign trace id and parent
\* id parse (ParseLongID and ParseID return no error) to identifiers that are
\* not all zero.
C4_ParsedParentRestored ==
  LET fp == W3CParent(parent.W3CContext)
      t  == ParseLongID(fp.TraceID)
      p  == ParseID(fp.ParentID)
  IN  (/\ ForeignOnlyParent
       /\ t.ok /\ p.ok
       /\ ~(t.hi = 0 /\ t.lo = 0 /\ p.val = 0))
        => RestoredFromTraceParent

C4_Witness ==
  /\ ForeignOnlyParent
  /\ result.ForeignTrace
  /\ result.TraceIDHi # 0
  /\ result.Suppressed
  /\ result.ParentID # 0

\* C5: when the parent has a native identifier (TraceIDHi, TraceID or SpanID
\* not zero), NewSpanContext returns a context with ForeignTrace = false, no
\* link beyond those of the parent, and the parent's TraceIDHi and TraceID,
\* with the parent's SpanID as ParentID, whatever the parent's W3C context
\* holds.
C5_NativeParentNotRestored ==
  (/\ op = "NewSpanContext"
   /\ (parent.TraceIDHi # 0 \/ parent.TraceID # 0 \/ parent.SpanID # 0))
    => /\ result.ForeignTrace = FALSE
       /\ Len(result.Links) <= Len(parent.Links)
       /\ \A i \in DOMAIN result.Links : result.Links[i] = parent.Links[i]
       /\ result.TraceIDHi = parent.TraceIDHi
       /\ result.TraceID = parent.TraceID
       /\ result.ParentID = parent.SpanID

C5_Witness ==
  /\ op = "NewSpanContext"
  /\ parent.TraceIDHi # 0 /\ parent.TraceID = 0 /\ parent.SpanID = 0
  /\ ~disableW3CTraceCorrelation
  /\ StateFetch(W3CState(parent.W3CContext), VendorInstana).ok
  /\ IsHexString(W3CParent(parent.W3CContext).TraceID)
  /\ result.TraceIDHi = parent.TraceIDHi
  /\ result.Links = <<>>

\* C6: when Stop is called before the delay has elapsed, the job is never
\* invoked.
C6_StopBeforeDelayRunsNoJob == stopBeforeDelay => jobs = 0

\* C7: when Stop is called after the interval ticker has fired, no
\* invocation of the job begins once Stop has returned, and Stop does not
\* panic.
C7_NoJobAfterStopReturned == stopAfterTick => (~jobAfterStop /\ ~stopPanicked)

\* C8: with interval > 0 and Stop not called, after an invocation of the job
\* has panicked the interval goroutine still serves the ticks (it waits in
\* its select or runs the job).
C8_PanicKeepsSchedule ==
  (interval > 0 /\ stopCalls = 0 /\ jobPanicked) => pcInterval \in {"select", "job"}

\* What restoreFromW3CTraceContext makes of the parent's W3C context.
RestoredParent ==
  restoreFromW3CTraceContext(parent.W3CContext, disableW3CTraceCorrelation)

\* NewSpanContext took the path of lines 76-85: neither the parent nor what
\* restoreFromW3CTraceContext made of its W3C context has a native
\* identifier.
FellBackToRoot ==
  /\ op = "NewSpanContext"
  /\ parent.TraceIDHi = 0 /\ parent.TraceID = 0 /\ parent.SpanID = 0
  /\ RestoredParent.TraceIDHi = 0
  /\ RestoredParent.TraceID = 0
  /\ RestoredParent.SpanID = 0

\* C9 as claimed: every context NewRootSpanContext or NewSpanContext returns
\* has a non-zero W3C context whose traceparent parent id is FormatID of the
\* context's SpanID.
C9_ParentIDAlwaysSpanID ==
  op \in {"NewRootSpanContext", "NewSpanContext"} =>
    /\ ~IsZero(result.W3CContext)
    /\ W3CParent(result.W3CContext).ParentID = FormatID(result.SpanID)

\* C9 (amended): every context NewRootSpanContext or NewSpanContext returns
\* has a non-zero W3C context; its traceparent parent id is FormatID of the
\* context's SpanID, except when NewSpanContext falls back to a new root
\* although the W3C context of the parent was restored (to identifiers that
\* are all zero): the root then carries the parent's W3C context unmodified.
C9_ParentIDIsSpanID ==
  op \in {"NewRootSpanContext", "NewSpanContext"} =>
    /\ ~IsZero(result.W3CContext)
    /\ IF FellBackToRoot /\ ~IsZero(RestoredParent.W3CContext)
         THEN result.W3CContext = parent.W3CContext
         ELSE W3CParent(result.W3CContext).ParentID = FormatID(result.SpanID)

C9_Witness ==
  /\ op = "NewSpanContext"
  /\ ~FellBackToRoot
  /\ ~IsZero(parent.W3CContext)
  /\ W3CParent(parent.W3CContext).ParentID # FormatID(result.SpanID)
  /\ W3CParent(result.W3CContext).ParentID = FormatID(result.SpanID)
  /\ W3CParent(result.W3CContext).TraceID = W3CParent(parent.W3CContext).TraceID

\* C10: injectTraceContext on a carrier that is no TextMapReader or no
\* TextMapWriter returns ErrInvalidCarrier, and a call that returns
\* ErrInvalidCarrier leaves every entry of the carrier as it was.
C10_InvalidCarrierUntouched ==
  LastOp("inject") =>
    /\ carrierKind \in {"Reader", "Writer", "Opaque"} => injErr = "ErrInvalidCarrier"
    /\ injErr = "ErrInvalidCarrier" => carrier = before

C10_Witness ==
  /\ LastOp("inject")
  /\ carrierKind = "Reader"
  /\ injErr = "ErrInvalidCarrier"
  /\ carrier # EmptyMap
  /\ carrier = before

\* C13: Stop is idempotent.  No call of Stop panics (no close of a nil or
\* of a closed channel), and a call made after an earlier call has set the
\* stopped flag returns at once and changes no field of the timer, no
\* channel and no goroutine, wherever the timer is in its lifecycle.
C13_StopIdempotent ==
  [][/\ ~stopPanicked'
     /\ (pcStop = "idle" /\ stopped /\ stopCalls' # stopCalls) =>
          /\ pcStop' = "idle"
          /\ UNCHANGED <<delayTimer, delayTimerC, delayTimerDone, intervalTicker,
                         intervalTickerC, intervalTickerDone, stopped,
                         pcDelay, pcInterval, jobs>>]_vars

C13_Witness ==
  /\ stopCalls = 2
  /\ stopReturned
  /\ pcStop = "idle"
  /\ ticks >= 1
  /\ intervalTicker = "stopped"
  /\ intervalTickerDone = "closed"
  /\ ~stopPanicked

\* C14: once Stop has returned, the interval ticker is not left running
\* (no later step can stop it: every further call of Stop returns at line
\* 62), also when Stop ran while the delay goroutine was creating the ticker.
C14_NoTickerRunsAfterStop ==
  (stopReturned /\ pcStop = "idle") => intervalTicker # "running"

\* C15: when NewSpanContext falls back to a new root for a parent whose W3C
\* context is non-zero, the root carries the parent's W3C context unmodified,
\* also when the foreign trace id or parent id failed to parse.
C15_FallbackKeepsW3CContext ==
  (FellBackToRoot /\ ~IsZero(parent.W3CContext))
    => result.W3CContext = parent.W3CContext

\* The `in` entry of the parent's tracestate, split at its first ';' and
\* parsed: [ok, hi, lo, span]; ok is false when the entry is absent, holds
\* no ';' or one of its two ids does not parse.
VendorIDs ==
  LET st == StateFetch(W3CState(parent.W3CContext), VendorInstana)
  IN  IF st.ok /\ IndexByte(st.Value, ";") > 0
        THEN [ok   |-> /\ ParseLongID(SubSeq(st.Value, 1, IndexByte(st.Value, ";") - 1)).ok
                       /\ ParseID(SubSeq(st.Value, IndexByte(st.Value, ";") + 1,
                                         Len(st.Value))).ok,
              hi   |-> ParseLongID(SubSeq(st.Value, 1, IndexByte(st.Value, ";") - 1)).hi,
              lo   |-> ParseLongID(SubSeq(st.Value, 1, IndexByte(st.Value, ";") - 1)).lo,
              span |-> ParseID(SubSeq(st.Value, IndexByte(st.Value, ";") + 1,
                                      Len(st.Value))).val]
        ELSE [ok |-> FALSE, hi |-> 0, lo |-> 0, span |-> 0]

\* The traceparent of the parent, its two ids parsed: [ok, hi, lo, span].
TraceParentIDs ==
  [ok   |-> /\ ~IsZero(parent.W3CContext)
            /\ ParseLongID(W3CParent(parent.W3CContext).TraceID).ok
            /\ ParseID(W3CParent(parent.W3CContext).ParentID).ok,
   hi   |-> ParseLongID(W3CParent(parent.W3CContext).TraceID).hi,
   lo   |-> ParseLongID(W3CParent(parent.W3CContext).TraceID).lo,
   span |-> ParseID(W3CParent(parent.W3CContext).ParentID).val]

ParentIsForeignOnly ==
  /\ op = "NewSpanContext"
  /\ parent.TraceIDHi = 0 /\ parent.TraceID = 0 /\ parent.SpanID = 0
  /\ ~IsZero(parent.W3CContext)

\* The result is a root made by the last call.
ResultIsNewRoot ==
  /\ result.ParentID = 0
  /\ result.TraceIDHi = 0
  /\ result.TraceID = lastID
  /\ result.SpanID = lastID

\* The result is a child made by the last call, with the trace id hi, lo and
\* the parent id span.
ResultIsChildOf(hi, lo, span) ==
  /\ result.TraceIDHi = hi
  /\ result.TraceID = lo
  /\ result.ParentID = span
  /\ result.SpanID = lastID

\* C16: with W3C correlation disabled and a parent that has no native
\* identifier but a non-zero W3C context, NewSpanContext returns a context
\* with ForeignTrace = false and no link; its trace id and ParentID are those
\* of the `in` entry of the tracestate when that entry parses (to identifiers
\* that are not all zero), whatever the traceparent holds, and the result is
\* a new root otherwise.
C16_DisabledUsesVendorEntryOnly ==
  (ParentIsForeignOnly /\ disableW3CTraceCorrelation) =>
    /\ result.ForeignTrace = FALSE
    /\ result.Links = <<>>
    /\ IF VendorIDs.ok /\ ~(VendorIDs.hi = 0 /\ VendorIDs.lo = 0 /\ VendorIDs.span = 0)
         THEN ResultIsChildOf(VendorIDs.hi, VendorIDs.lo, VendorIDs.span)
         ELSE ResultIsNewRoot

C16_Witness ==
  /\ ParentIsForeignOnly
  /\ disableW3CTraceCorrelation
  /\ VendorIDs.ok
  /\ TraceParentIDs.ok
  /\ TraceParentIDs.lo # VendorIDs.lo
  /\ TraceParentIDs.span # VendorIDs.span
  /\ ResultIsChildOf(VendorIDs.hi, VendorIDs.lo, VendorIDs.span)

\* C17: NewSpanContext never returns partially populated identifiers: the
\* result is a new root, or a child whose TraceIDHi, TraceID and ParentID are
\* all three those of the parent's native identifiers, all three those
\* parsed from the traceparent (correlation enabled, both ids parse), or all
\* three those parsed from the `in` tracestate entry (correlation disabled,
\* both ids parse).
C17_IdentifiersFromOneSource ==
  op = "NewSpanContext" =>
    \/ ResultIsNewRoot
    \/ /\ parent.TraceIDHi # 0 \/ parent.TraceID # 0 \/ parent.SpanID # 0
       /\ ResultIsChildOf(parent.TraceIDHi, parent.TraceID, parent.SpanID)
    \/ /\ ParentIsForeignOnly /\ ~disableW3CTraceCorrelation
       /\ TraceParentIDs.ok
       /\ ResultIsChildOf(TraceParentIDs.hi, TraceParentIDs.lo, TraceParentIDs.span)
    \/ /\ ParentIsForeignOnly /\ disableW3CTraceCorrelation
       /\ VendorIDs.ok
       /\ ResultIsChildOf(VendorIDs.hi, VendorIDs.lo, VendorIDs.span)

C17_Witness ==
  /\ ParentIsForeignOnly
  /\ disableW3CTraceCorrelation
  /\ StateFetch(W3CState(parent.W3CContext), VendorInstana).ok
  /\ IndexByte(StateFetch(W3CState(parent.W3CContext), VendorInstana).Value, ";") > 0
  /\ ~VendorIDs.ok
  /\ ResultIsNewRoot

C11_CloneEqualsReceiver ==
  op = "Clone" =>
    /\ result.TraceIDHi = parent.TraceIDHi
    /\ result.TraceID = parent.TraceID
    /\ result.SpanID = parent.SpanID
    /\ result.ParentID = parent.ParentID
    /\ result.Links = parent.Links
    /\ result.Sampled = parent.Sampled
    /\ result.Suppressed = parent.Suppressed
    /\ BaggageOf(result, heap) = BaggageOf(parent, heap)
    /\ result.W3CContext = parent.W3CContext
    /\ result.ForeignTrace = parent.ForeignTrace
    /\ result.Correlation = parent.Correlation
    /\ parent.Baggage # NilMap => result.Baggage # parent.Baggage

\* C19: WithBaggageItem(key, val) returns a context whose baggage is the
\* receiver's entries with key mapped to val, and no call (WithBaggageItem,
\* Clone or NewSpanContext, on a child or on a parent) changes the baggage
\* seen through a context that existed before the call: the entries stay
\* the same, and none appear where the map was absent.
C19_BaggageNeverShared ==
  [][/\ BaggageOf(parent, heap') = BaggageOf(parent, heap)
     /\ BaggageOf(result, heap') = BaggageOf(result, heap)
     /\ parent.Baggage = NilMap => BaggageOf(parent, heap') = EmptyMap
     /\ op' = "WithBaggageItem" =>
          /\ parent' \in {parent, result}
          /\ BaggageOf(result', heap')
               = MapSet(BaggageOf(parent', heap), item'.key, item'.val)]_vars

C19_Witness ==
  /\ op = "WithBaggageItem"
  /\ depth >= 2
  /\ parent.Baggage # NilMap
  /\ item.key \in DOMAIN BaggageOf(parent, heap)
  /\ BaggageOf(parent, heap)[item.key] # item.val
  /\ BaggageOf(result, heap)[item.key] = item.val
  /\ result.Baggage # parent.Baggage

\* C12: injectTraceContext into an HTTP-header-map carrier writes a
\* traceparent header whose parent id is FormatID(SpanID) of the injected
\* context and a tracestate header with exactly one entry of the vendor key
\* `in`, of value FormatID(TraceID);FormatID(SpanID); the entries of the
\* other vendors in the W3C state the context came with are all kept, in the
\* order they had.
InjectedParentHeader == carrier[CanonicalMIMEHeaderKey(TraceParentHeader)][1]

InjectedState == ParseState(carrier[CanonicalMIMEHeaderKey(TraceStateHeader)][1])

StateOfInjected ==
  IF sc.ForeignParent.kind = "w3c" THEN ParseState(sc.ForeignParent.ctx.RawState)
  ELSE <<>>

OtherVendors(state) == SelectSeq(state, LAMBDA e : e.Vendor # VendorInstana)

C12_W3CHeadersFollowContext ==
  (LastOp("inject") /\ carrierKind = "HTTPHeadersCarrier" /\ injErr = "nil") =>
    /\ CanonicalMIMEHeaderKey(TraceParentHeader) \in DOMAIN carrier
    /\ CanonicalMIMEHeaderKey(TraceStateHeader) \in DOMAIN carrier
    /\ Len(carrier[CanonicalMIMEHeaderKey(TraceParentHeader)]) = 1
    /\ Len(carrier[CanonicalMIMEHeaderKey(TraceStateHeader)]) = 1
    /\ ParseParent(InjectedParentHeader).ok
    /\ ParseParent(InjectedParentHeader).parent.ParentID = FormatID(sc.SpanID)
    /\ Cardinality({i \in DOMAIN InjectedState :
                       InjectedState[i].Vendor = VendorInstana}) = 1
    /\ \E i \in DOMAIN InjectedState :
         /\ InjectedState[i].Vendor = VendorInstana
         /\ InjectedState[i].Value
              = FormatID(sc.TraceID) \o <<";">> \o FormatID(sc.SpanID)
    /\ OtherVendors(InjectedState) = OtherVendors(StateOfInjected)

C12_Witness ==
  /\ LastOp("inject")
  /\ carrierKind = "HTTPHeadersCarrier"
  /\ injErr = "nil"
  /\ Len(OtherVendors(StateOfInjected)) = 2
  /\ Len(StateOfInjected) = 3
  /\ StateOfInjected[2].Vendor = VendorInstana
  /\ StateOfInjected[2].Value # FormatID(sc.TraceID) \o <<";">> \o FormatID(sc.SpanID)
  /\ W3CParent(sc.ForeignParent.ctx).ParentID # FormatID(sc.SpanID)
  /\ Len(InjectedState) = 3

\* C18: injectTraceContext into a carrier that already holds a trace, span
\* or level key in another letter case than the lower-case one reuses that
\* key: after the injection exactly one key of the carrier spells each of
\* x-instana-t, x-instana-s and x-instana-l (letter case ignored) and it
\* holds the injected value; for a field no key spelled before the call, the
\* lower-case name is what carrier.Set is given (a text map stores it as it
\* is, a header map in its canonical form).
HeldInOtherCase(m) ==
  \E k \in DOMAIN m : ToLower(k) \in {FieldT, FieldS, FieldL} /\ k # ToLower(k)

InjectedValue(field) ==
  IF field = FieldT THEN FormatID(sc.TraceID)
  ELSE IF field = FieldS THEN FormatID(sc.SpanID)
  ELSE IF sc.Suppressed THEN <<"0">> ELSE <<"1">>

C18_OneKeyPerField ==
  (LastOp("inject") /\ injErr = "nil") =>
    \A field \in {FieldT, FieldS, FieldL} :
      /\ HeldInOtherCase(before) =>
           /\ Cardinality(KeysOf(carrier, field)) = 1
           /\ \A k \in KeysOf(carrier, field) : carrier[k] = <<InjectedValue(field)>>
      /\ KeysOf(before, field) = {} =>
           IF carrierKind = "HTTPHeadersCarrier"
             THEN CanonicalMIMEHeaderKey(field) \in DOMAIN carrier
             ELSE field \in DOMAIN carrier

=============================================================================
